---- MODULE Spec2Model ----
(***************************************************************************)
(* A model of the generic entity-mapping engine of maec/__init__.py:       *)
(* Entity (equality, to_dict/from_dict, to_obj/from_obj, to_xml and the    *)
(* namespace walk) and EntityList (typed, coercing mutable sequence).      *)
(*                                                                         *)
(* Objects live in a heap, a sequence of object records; an object's       *)
(* identity is its index.  Python values are tagged records:               *)
(*   [k |-> "none"]  None          [k |-> "prim", v |-> n]  a primitive    *)
(*   [k |-> "ref", id |-> i]  a reference to heap object i                 *)
(*   [k |-> "list", items |-> s]  a Python list                            *)
(*   [k |-> "dict", m |-> f]  a dict      [k |-> "obj", ...]  a binding    *)
(***************************************************************************)
EXTENDS Integers, Sequences, FiniteSets, TLC

VARIABLES
    heap,    \* the objects: Seq of [cls, f, parent, inner, touched]
    conv,    \* the last conversion call: [op, cls, src, arg, out, ret]
    inner,   \* EntityList._inner of the list under test
    last,    \* the last EntityList call: [op, value, idx, args, before, raised, err]
    stack,   \* frames of _get_namespaces: Seq of [obj, todo, ns]
    visits,  \* how many times _get_namespaces was entered per object
    xml      \* the to_xml call: [pc, root, ns, declared, status]

vars == <<heap, conv, inner, last, stack, visits, xml>>

(***************************************************************************)
(* Bounds                                                                  *)
(***************************************************************************)
MaxObjs == 2          \* objects a caller builds before converting
MaxItems == 1         \* length of list-valued fields and of nested EntityLists
MaxLinks == 2         \* entities of the graph the namespace walk runs on
RecursionLimit == 5   \* depth at which the interpreter stops a recursion
MaxLen == 2           \* length of the EntityList under test
MaxArgs == 2          \* positional arguments of the EntityList constructor

(***************************************************************************)
(* Values                                                                  *)
(***************************************************************************)
NoneV == [k |-> "none"]
Prim(n) == [k |-> "prim", v |-> n]
Ref(i) == [k |-> "ref", id |-> i]
ListV(s) == [k |-> "list", items |-> s]
DictV(m) == [k |-> "dict", m |-> m]
ObjV(c, a) == [k |-> "obj", cls |-> c, a |-> a]
EmptyDict == DictV([x \in {} |-> NoneV])

\* Values and errors of the EntityList under test, and the record of a call
Elem(kind, n, items) == [kind |-> kind, n |-> n, items |-> items, cast |-> FALSE]
Typed(n) == Elem("typed", n, << >>)
Raw(n) == Elem("raw", n, << >>)
Bad(n) == Elem("bad", n, << >>)
TupleOf(s) == Elem("tuple", 0, s)
ListOf(s) == Elem("list", 0, s)
NoElem == Elem("none", 0, << >>)

NoErr == [name |-> "", value |-> NoElem]
ValueError(value) == [name |-> "ValueError", value |-> value]
IndexError == [name |-> "IndexError", value |-> NoElem]

Call(op, value, idx, args, before, err) ==
    [op |-> op, value |-> value, idx |-> idx, args |-> args, before |-> before,
     err |-> err]
NoCall == Call("none", NoElem, 0, << >>, << >>, NoErr)

\* Python truth value of a field value: None, 0 and [] are falsy.
Truthy(val) ==
    CASE val.k = "none" -> FALSE
      [] val.k = "prim" -> val.v # 0
      [] val.k = "list" -> val.items # <<>>
      [] OTHER -> TRUE

(***************************************************************************)
(* The class table: the concrete Entity subclasses the engine is run on.   *)
(* A TypedField descriptor is a record; type "" is "no declared type".     *)
(***************************************************************************)
TF(attr, name, key, type, multiple, comparable) ==
    [attr |-> attr, name |-> name, key |-> key, type |-> type,
     multiple |-> multiple, comparable |-> comparable]

\* _get_vars: the TypedField descriptors of a class, in inspect.getmembers
\* (name) order.
get_vars(c) ==
    CASE c = "Node" ->
           << TF("child", "Child", "child", "Leaf", FALSE, TRUE),
              TF("items", "Item", "items", "Leaf", TRUE, TRUE),
              TF("lst", "List", "lst", "LeafList", FALSE, TRUE) >>
      [] c = "Leaf" ->
           << TF("note", "Note", "note", "", FALSE, FALSE),
              TF("value", "Value", "value", "", FALSE, TRUE) >>
      [] c \in {"Link", "SubLink"} ->
           << TF("next", "Next", "next", "Link", FALSE, TRUE) >>
      [] OTHER -> << >>

AttrNames(c) == {get_vars(c)[i].attr : i \in DOMAIN get_vars(c)}

EntityClasses == {"Node", "Leaf", "LeafList", "Bare"}
LinkClasses == {"Link", "SubLink", "Bare"}

\* issubclass(c, EntityList)
IsEntityList(c) == c = "LeafList"
contained_type(c) == "Leaf"
binding_var(c) == "Leaf"

\* issubclass(c, t)
IsSubclass(c, t) == c = t \/ (t = "Link" /\ c = "SubLink")

\* Entity.__init__ / EntityList.__init__ with no arguments: no field set (an
\* unset single-valued field reads as None, an unset list-valued one as []),
\* an empty _inner, no visited marker.
NewObj(c) ==
    [cls |-> c,
     f |-> [a \in AttrNames(c) |->
              IF \E i \in DOMAIN get_vars(c) :
                     get_vars(c)[i].attr = a /\ get_vars(c)[i].multiple
              THEN ListV(<<>>) ELSE NoneV],
     parent |-> NoneV, inner |-> <<>>, touched |-> FALSE]

\* istypeof: isinstance(obj, cls)
istypeof(h, c, val) == val.k = "ref" /\ IsSubclass(h[val.id].cls, c)

Live(h) == 1..Len(h)

(***************************************************************************)
(* Entity.__eq__ / __ne__                                                  *)
(***************************************************************************)
RECURSIVE Entity_eq(_, _, _)
RECURSIVE value_ne(_, _, _)
RECURSIVE eq_fields(_, _, _, _, _)

\* Python's x != y on two field values.  An Entity on either side answers
\* through Entity.__ne__; two lists differ when their lengths differ or some
\* pair of items differs; None and primitives compare by value.
value_ne(h, x, y) ==
    CASE x.k = "ref" /\ y.k = "ref" -> ~Entity_eq(h, x.id, y.id)
      [] x.k = "ref" \/ y.k = "ref" -> TRUE
      [] x.k = "list" /\ y.k = "list" ->
           \/ Len(x.items) # Len(y.items)
           \/ \E i \in 1..Len(x.items) : value_ne(h, x.items[i], y.items[i])
      [] x.k = "prim" /\ y.k = "prim" -> x.v # y.v
      [] OTHER -> x.k # y.k

\* The loop over var_list: skip a non-comparable field, return False at the
\* first comparable field whose values differ, True at the end.
eq_fields(h, self, other, var_list, i) ==
    IF i > Len(var_list) THEN TRUE
    ELSE IF ~var_list[i].comparable
         THEN eq_fields(h, self, other, var_list, i + 1)
    ELSE IF value_ne(h, h[self].f[var_list[i].attr], h[other].f[var_list[i].attr])
         THEN FALSE
    ELSE eq_fields(h, self, other, var_list, i + 1)

\* an __eq__ without the test for a class that has no TypedFields
Entity_eq_no_fields_test(h, self, other) ==
    IF other = self THEN TRUE
    ELSE IF h[self].cls # h[other].cls THEN FALSE
    ELSE eq_fields(h, self, other, get_vars(h[self].cls), 1)

Entity_eq(h, self, other) ==
    IF other = self THEN TRUE
    ELSE IF h[self].cls # h[other].cls THEN FALSE
    ELSE IF get_vars(h[self].cls) = << >> THEN FALSE
    ELSE eq_fields(h, self, other, get_vars(h[self].cls), 1)

Entity_ne(h, self, other) == ~Entity_eq(h, self, other)

(***************************************************************************)
(* Entity.to_dict / EntityList.to_list                                     *)
(***************************************************************************)
RECURSIVE to_dict(_, _)

\* [x.to_dict() for x in val]
to_dict_items(h, s) == [i \in 1..Len(s) |-> to_dict(h, s[i].id)]

\* The value of one field as to_dict converts it, before the sparsity test.
to_dict_field(h, fld, val) ==
    IF fld.multiple
    THEN IF Truthy(val) THEN ListV(to_dict_items(h, val.items)) ELSE ListV(<< >>)
    ELSE IF val.k = "ref" THEN to_dict(h, val.id)
    ELSE val

\* a test that drops None only
dict_keeps_not_none(val) == val # NoneV

\* Only add non-None objects or non-empty lists.
dict_keeps(val) == val # NoneV /\ val # ListV(<< >>)

to_dict(h, id) ==
    IF IsEntityList(h[id].cls)
    THEN ListV(to_dict_items(h, h[id].inner))
    ELSE LET flds == get_vars(h[id].cls)
             cv(i) == to_dict_field(h, flds[i], h[id].f[flds[i].attr])
             keep == {i \in DOMAIN flds : dict_keeps(cv(i))}
         IN  DictV([key \in {flds[i].key : i \in keep} |->
                       cv(CHOOSE i \in keep : flds[i].key = key)])

(***************************************************************************)
(* Entity.from_dict / EntityList.from_list.  A call returns the heap it    *)
(* leaves (new objects are appended) and the returned value.               *)
(* Inputs are None or mappings; list items are mappings.                   *)
(***************************************************************************)
RECURSIVE from_dict(_, _, _)
RECURSIVE from_dict_fields(_, _, _, _, _)
RECURSIVE from_dict_items(_, _, _, _, _)
RECURSIVE from_list_items(_, _, _, _, _)

\* cls_dict.get(key)
DictGet(d, key) == IF key \in DOMAIN d.m THEN d.m[key] ELSE NoneV

\* [type_.from_dict(x) for x in val]
from_dict_items(h, c, s, i, acc) ==
    IF i > Len(s) THEN [h |-> h, r |-> ListV(acc)]
    ELSE LET one == from_dict(h, c, s[i])
         IN  from_dict_items(one.h, c, s, i + 1, Append(acc, one.r))

\* for item in list_list: list_.append(contained_type.from_dict(item))
from_list_items(h, lid, c, s, i) ==
    IF i > Len(s) THEN h
    ELSE LET one == from_dict(h, contained_type(c), s[i])
         IN  from_list_items(
                 [one.h EXCEPT ![lid].inner = Append(@, one.r)], lid, c, s, i + 1)

from_list(h, c, list_list) ==
    IF list_list.k # "list" THEN [h |-> h, r |-> NoneV]
    ELSE LET lid == Len(h) + 1
         IN  [h |-> from_list_items(Append(h, NewObj(c)), lid, c, list_list.items, 1),
              r |-> Ref(lid)]

\* The value from_dict stores for one field.
from_dict_field(h, fld, val) ==
    IF fld.type # ""
    THEN IF IsEntityList(fld.type) THEN from_list(h, fld.type, val)
         ELSE IF fld.multiple
              THEN IF val # NoneV
                   THEN from_dict_items(h, fld.type, val.items, 1, << >>)
                   ELSE [h |-> h, r |-> ListV(<< >>)]
         ELSE from_dict(h, fld.type, val)
    ELSE IF fld.multiple /\ ~Truthy(val) THEN [h |-> h, r |-> ListV(<< >>)]
    ELSE [h |-> h, r |-> val]

from_dict_fields(h, id, flds, d, i) ==
    IF i > Len(flds) THEN h
    ELSE LET one == from_dict_field(h, flds[i], DictGet(d, flds[i].key))
         IN  from_dict_fields(
                 [one.h EXCEPT ![id].f[flds[i].attr] = one.r], id, flds, d, i + 1)

\* a from_dict that tests "not cls_dict" as from_obj does
from_dict_falsy(h, c, cls_dict) ==
    IF cls_dict = NoneV \/ cls_dict = EmptyDict THEN [h |-> h, r |-> NoneV]
    ELSE LET id == Len(h) + 1
         IN  [h |-> from_dict_fields(Append(h, NewObj(c)), id, get_vars(c), cls_dict, 1),
              r |-> Ref(id)]

from_dict(h, c, cls_dict) ==
    IF cls_dict = NoneV THEN [h |-> h, r |-> NoneV]
    ELSE LET id == Len(h) + 1
         IN  [h |-> from_dict_fields(Append(h, NewObj(c)), id, get_vars(c), cls_dict, 1),
              r |-> Ref(id)]


(***************************************************************************)
(* Entity.to_obj / EntityList.to_obj: the binding tree                     *)
(***************************************************************************)
RECURSIVE to_obj(_, _)

\* [x.to_obj() for x in val]
to_obj_items(h, s) == [i \in 1..Len(s) |-> to_obj(h, s[i].id)]

to_obj_field(h, fld, val) ==
    IF fld.multiple
    THEN IF Truthy(val) THEN ListV(to_obj_items(h, val.items)) ELSE ListV(<< >>)
    ELSE IF val.k = "ref" THEN to_obj(h, val.id)
    ELSE val

to_obj(h, id) ==
    IF IsEntityList(h[id].cls)
    THEN ObjV(h[id].cls,
              [n \in {binding_var(h[id].cls)} |-> ListV(to_obj_items(h, h[id].inner))])
    ELSE LET flds == get_vars(h[id].cls)
         IN  ObjV(h[id].cls,
                  [n \in {flds[i].name : i \in DOMAIN flds} |->
                      LET i == CHOOSE j \in DOMAIN flds : flds[j].name = n
                      IN  to_obj_field(h, flds[i], h[id].f[flds[i].attr])])

\* The Entities to_obj calls to_obj on: the values of descriptor fields, the
\* items of list-valued ones, the elements of an EntityList.
to_obj_callees(h, id) ==
    IF IsEntityList(h[id].cls)
    THEN {h[id].inner[i].id : i \in DOMAIN h[id].inner}
    ELSE LET flds == get_vars(h[id].cls)
             val(i) == h[id].f[flds[i].attr]
         IN  UNION {IF flds[i].multiple
                    THEN IF Truthy(val(i))
                         THEN {val(i).items[j].id : j \in DOMAIN val(i).items}
                         ELSE {}
                    ELSE IF val(i).k = "ref" THEN {val(i).id} ELSE {}
                    : i \in DOMAIN flds}

\* Whether the recursion of to_obj from `id` needs more than `fuel` nested
\* calls: the interpreter then stops it with a RuntimeError.
RECURSIVE to_obj_overflows(_, _, _)
to_obj_overflows(h, id, fuel) ==
    IF fuel = 0 THEN TRUE
    ELSE \E c \in to_obj_callees(h, id) : to_obj_overflows(h, c, fuel - 1)

(***************************************************************************)
(* Entity.from_obj / EntityList.from_obj                                   *)
(***************************************************************************)
RECURSIVE from_obj(_, _, _)
RECURSIVE from_obj_fields(_, _, _, _, _)
RECURSIVE from_obj_items(_, _, _, _, _)
RECURSIVE list_from_obj_items(_, _, _, _, _)

\* [field.type_.from_obj(x) for x in val]
from_obj_items(h, c, s, i, acc) ==
    IF i > Len(s) THEN [h |-> h, r |-> ListV(acc)]
    ELSE LET one == from_obj(h, c, s[i])
         IN  from_obj_items(one.h, c, s, i + 1, Append(acc, one.r))

\* for item in getattr(list_obj, _binding_var): list_.append(...from_obj(item))
list_from_obj_items(h, lid, c, s, i) ==
    IF i > Len(s) THEN h
    ELSE LET one == from_obj(h, contained_type(c), s[i])
         IN  list_from_obj_items(
                 [one.h EXCEPT ![lid].inner = Append(@, one.r)], lid, c, s, i + 1)

\* EntityList.from_obj
list_from_obj(h, c, list_obj) ==
    IF ~Truthy(list_obj) THEN [h |-> h, r |-> NoneV]
    ELSE LET lid == Len(h) + 1
         IN  [h |-> list_from_obj_items(Append(h, NewObj(c)), lid, c,
                                        list_obj.a[binding_var(c)].items, 1),
              r |-> Ref(lid)]

from_obj_field(h, fld, val) ==
    IF fld.type # ""
    THEN IF fld.multiple /\ val # NoneV
         THEN from_obj_items(h, fld.type, val.items, 1, << >>)
         ELSE from_obj(h, fld.type, val)
    ELSE [h |-> h, r |-> val]

from_obj_fields(h, id, flds, cls_obj, i) ==
    IF i > Len(flds) THEN h
    ELSE LET one == from_obj_field(h, flds[i], cls_obj.a[flds[i].name])
         IN  from_obj_fields(
                 [one.h EXCEPT ![id].f[flds[i].attr] = one.r], id, flds, cls_obj, i + 1)

from_obj(h, c, cls_obj) ==
    IF IsEntityList(c) THEN list_from_obj(h, c, cls_obj)
    ELSE IF ~Truthy(cls_obj) THEN [h |-> h, r |-> NoneV]
    ELSE LET id == Len(h) + 1
         IN  [h |-> from_obj_fields(Append(h, NewObj(c)), id, get_vars(c), cls_obj, 1),
              r |-> Ref(id)]

(***************************************************************************)
(* Building entities: a caller creates objects and assigns their fields,   *)
(* then calls one conversion.                                              *)
(***************************************************************************)
NoConv == [op |-> "none", cls |-> "", src |-> 0, arg |-> NoneV, out |-> NoneV,
           ret |-> NoneV]

Building == conv.op = "none" /\ xml.pc = "idle"

\* cls()
New(c) ==
    /\ Building
    /\ Len(heap) < MaxObjs
    /\ heap' = Append(heap, NewObj(c))
    /\ UNCHANGED <<conv, inner, last, stack, visits, xml>>

\* entity.<attr> = val, for a field without a declared type
SetPrim(id, i, val) ==
    /\ Building
    /\ i \in DOMAIN get_vars(heap[id].cls)
    /\ LET fld == get_vars(heap[id].cls)[i]
       IN  /\ fld.type = "" /\ ~fld.multiple
           /\ heap[id].f[fld.attr] # val
           /\ heap' = [heap EXCEPT ![id].f[fld.attr] = val]
    /\ UNCHANGED <<conv, inner, last, stack, visits, xml>>

\* entity.<attr> = target (an instance of the declared type) or None
SetRef(id, i, val) ==
    /\ Building
    /\ i \in DOMAIN get_vars(heap[id].cls)
    /\ LET fld == get_vars(heap[id].cls)[i]
       IN  /\ fld.type # "" /\ ~fld.multiple
           /\ val = NoneV \/ istypeof(heap, fld.type, val)
           /\ heap[id].f[fld.attr] # val
           /\ heap' = [heap EXCEPT ![id].f[fld.attr] = val]
    /\ UNCHANGED <<conv, inner, last, stack, visits, xml>>

\* entity.<attr> = None or [] for a list-valued field
SetMultiple(id, i, val) ==
    /\ Building
    /\ i \in DOMAIN get_vars(heap[id].cls)
    /\ LET fld == get_vars(heap[id].cls)[i]
       IN  /\ fld.multiple
           /\ heap[id].f[fld.attr] # val
           /\ heap' = [heap EXCEPT ![id].f[fld.attr] = val]
    /\ UNCHANGED <<conv, inner, last, stack, visits, xml>>

\* entity.<attr>.append(target) for a list-valued field
AppendMultiple(id, i, t) ==
    /\ Building
    /\ i \in DOMAIN get_vars(heap[id].cls)
    /\ LET fld == get_vars(heap[id].cls)[i]
           cur == heap[id].f[fld.attr]
       IN  /\ fld.multiple
           /\ cur.k = "list" /\ Len(cur.items) < MaxItems
           /\ istypeof(heap, fld.type, Ref(t))
           /\ heap' = [heap EXCEPT ![id].f[fld.attr] = ListV(Append(cur.items, Ref(t)))]
    /\ UNCHANGED <<conv, inner, last, stack, visits, xml>>

\* entitylist.append(target), target an instance of the contained type
AppendElement(id, t) ==
    /\ Building
    /\ IsEntityList(heap[id].cls)
    /\ Len(heap[id].inner) < MaxItems
    /\ istypeof(heap, contained_type(heap[id].cls), Ref(t))
    /\ heap' = [heap EXCEPT ![id].inner = Append(@, Ref(t))]
    /\ UNCHANGED <<conv, inner, last, stack, visits, xml>>

\* entity.to_dict()
ToDict(id) ==
    /\ Building
    /\ conv' = [NoConv EXCEPT !.op = "to_dict", !.cls = heap[id].cls, !.src = id,
                              !.out = to_dict(heap, id)]
    /\ UNCHANGED <<heap, inner, last, stack, visits, xml>>

\* entity.to_obj()
ToObj(id) ==
    /\ Building
    /\ conv' = [NoConv EXCEPT !.op = "to_obj", !.cls = heap[id].cls, !.src = id,
                              !.out = to_obj(heap, id)]
    /\ UNCHANGED <<heap, inner, last, stack, visits, xml>>

\* cls.from_dict(arg): arg is None, an empty mapping (src = 0), or the
\* to_dict() of the entity src of class cls.
FromDict(c, src, arg) ==
    /\ Building
    /\ ~IsEntityList(c)
    /\ \/ src = 0 /\ arg \in {NoneV, EmptyDict}
       \/ src \in Live(heap) /\ heap[src].cls = c /\ arg = to_dict(heap, src)
    /\ LET res == from_dict(heap, c, arg)
       IN  /\ heap' = res.h
           /\ conv' = [NoConv EXCEPT !.op = "from_dict", !.cls = c, !.src = src,
                                     !.arg = arg, !.ret = res.r]
    /\ UNCHANGED <<inner, last, stack, visits, xml>>

\* cls.from_obj(arg): arg is None (src = 0) or the to_obj() of the entity src
\* of class cls.
FromObj(c, src, arg) ==
    /\ Building
    /\ \/ src = 0 /\ arg = NoneV
       \/ src \in Live(heap) /\ heap[src].cls = c /\ arg = to_obj(heap, src)
    /\ LET res == from_obj(heap, c, arg)
       IN  /\ heap' = res.h
           /\ conv' = [NoConv EXCEPT !.op = "from_obj", !.cls = c, !.src = src,
                                     !.arg = arg, !.ret = res.r]
    /\ UNCHANGED <<inner, last, stack, visits, xml>>

\* EntityList.from_list(arg): arg is None, an empty list (src = 0), or the
\* to_list() of the entity list src.
FromList(c, src, arg) ==
    /\ Building
    /\ IsEntityList(c)
    /\ \/ src = 0 /\ arg \in {NoneV, ListV(<< >>)}
       \/ src \in Live(heap) /\ heap[src].cls = c /\ arg = to_dict(heap, src)
    /\ LET res == from_list(heap, c, arg)
       IN  /\ heap' = res.h
           /\ conv' = [NoConv EXCEPT !.op = "from_list", !.cls = c, !.src = src,
                                     !.arg = arg, !.ret = res.r]
    /\ UNCHANGED <<inner, last, stack, visits, xml>>

PrimValues == {NoneV, Prim(1)}

NoXml == [pc |-> "idle", root |-> 0, ns |-> {}, declared |-> {}, status |-> ""]

InitEntity ==
    /\ heap = << >>
    /\ conv = NoConv
    /\ inner = << >>
    /\ last = NoCall
    /\ stack = << >>
    /\ visits = << >>
    /\ xml = NoXml

NextEntity ==
    \/ \E c \in EntityClasses : New(c)
    \/ \E id \in Live(heap), i \in 1..3, val \in PrimValues : SetPrim(id, i, val)
    \/ \E id \in Live(heap), i \in 1..3, t \in Live(heap) : SetRef(id, i, Ref(t))
    \/ \E id \in Live(heap), i \in 1..3 : SetRef(id, i, NoneV)
    \/ \E id \in Live(heap), i \in 1..3, val \in {NoneV, ListV(<< >>)} :
          SetMultiple(id, i, val)
    \/ \E id \in Live(heap), i \in 1..3, t \in Live(heap) : AppendMultiple(id, i, t)
    \/ \E id \in Live(heap), t \in Live(heap) : AppendElement(id, t)
    \/ \E id \in Live(heap) : ToDict(id)
    \/ \E id \in Live(heap) : ToObj(id)
    \/ \E c \in EntityClasses, src \in 0..Len(heap),
          arg \in {NoneV, EmptyDict} \cup {to_dict(heap, s) : s \in Live(heap)} :
          FromDict(c, src, arg)
    \/ \E c \in EntityClasses, src \in 0..Len(heap),
          arg \in {NoneV} \cup {to_obj(heap, s) : s \in Live(heap)} :
          FromObj(c, src, arg)
    \/ \E c \in EntityClasses, src \in 0..Len(heap),
          arg \in {NoneV, ListV(<< >>)} \cup {to_dict(heap, s) : s \in Live(heap)} :
          FromList(c, src, arg)

SpecEntity == InitEntity /\ [][NextEntity]_vars

(***************************************************************************)
(* Claims about Entity, checked under SpecEntity                           *)
(***************************************************************************)

\* "Equal values" of two fields, stated by cases rather than by the code's
\* scan: both None, the same primitive, two Entities that are ==, or two
\* lists of the same length whose items are pairwise equal.
RECURSIVE SameValue(_, _, _)
SameValue(h, x, y) ==
    \/ x.k = "none" /\ y.k = "none"
    \/ x.k = "prim" /\ y.k = "prim" /\ x.v = y.v
    \/ x.k = "ref" /\ y.k = "ref" /\ Entity_eq(h, x.id, y.id)
    \/ /\ x.k = "list" /\ y.k = "list" /\ Len(x.items) = Len(y.items)
       /\ \A i \in 1..Len(x.items) : SameValue(h, x.items[i], y.items[i])

ComparableEqual(h, a, b) ==
    \A i \in DOMAIN get_vars(h[a].cls) :
        get_vars(h[a].cls)[i].comparable =>
            SameValue(h, h[a].f[get_vars(h[a].cls)[i].attr],
                         h[b].f[get_vars(h[a].cls)[i].attr])

\* C1 (as claimed): for any Entity e of a class with descriptors,
\* from_dict(e.to_dict()) is an Entity equal to e.
C1_RoundTripDict ==
    (conv.op = "from_dict" /\ conv.src # 0 /\ get_vars(conv.cls) # << >>) =>
        (conv.ret.k = "ref" /\ Entity_eq(heap, conv.ret.id, conv.src))

\* C2 (as claimed): for any Entity e of a class with descriptors,
\* from_obj(e.to_obj()) is an Entity equal to e.
C2_RoundTripObj ==
    (conv.op = "from_obj" /\ conv.src # 0 /\ get_vars(conv.cls) # << >>) =>
        (conv.ret.k = "ref" /\ Entity_eq(heap, conv.ret.id, conv.src))

\* C4: two distinct instances are == iff they have the same class, that class
\* has descriptors, and every comparable field has equal values; an instance
\* of a class without descriptors is == to itself only; != negates ==.
C4_Equality ==
    \A a, b \in Live(heap) :
        /\ a # b =>
             (Entity_eq(heap, a, b) <=>
                 /\ heap[a].cls = heap[b].cls
                 /\ get_vars(heap[a].cls) # << >>
                 /\ ComparableEqual(heap, a, b))
        /\ get_vars(heap[a].cls) = << >> => (Entity_eq(heap, a, b) <=> a = b)
        /\ Entity_eq(heap, a, a)
        /\ Entity_ne(heap, a, b) <=> ~Entity_eq(heap, a, b)

\* Two distinct instances of one class that are == although their
\* non-comparable field differs: the comparable field holds the same value.
C4_Witness ==
    \E a, b \in Live(heap) :
        /\ a # b /\ heap[a].cls = "Leaf" /\ heap[b].cls = "Leaf"
        /\ heap[a].f["note"] # heap[b].f["note"]
        /\ heap[a].f["value"] = Prim(1)
        /\ Entity_eq(heap, a, b)

\* No key of a to_dict() result holds None or an empty list, at any depth.
RECURSIVE Sparse(_)
Sparse(d) ==
    CASE d.k = "dict" ->
           \A key \in DOMAIN d.m :
               d.m[key] # NoneV /\ d.m[key] # ListV(<< >>) /\ Sparse(d.m[key])
      [] d.k = "list" -> \A i \in DOMAIN d.items : Sparse(d.items[i])
      [] OTHER -> TRUE

\* C6: the mapping to_dict() returns has no key whose value is None or an
\* empty sequence.
C6_Sparse == conv.op = "to_dict" => Sparse(conv.out)

\* to_dict() of a Node with an absent field, an empty list-valued field and
\* a present field.
C6_Witness ==
    /\ conv.op = "to_dict" /\ conv.cls = "Node"
    /\ heap[conv.src].f["lst"] = NoneV
    /\ heap[conv.src].f["items"] = ListV(<< >>)
    /\ DOMAIN conv.out.m = {"child"}

\* C7 (as claimed): from_obj and from_dict return None for None and for an
\* empty mapping.
C7_EmptyInputGivesNone ==
    (conv.op \in {"from_dict", "from_obj"} /\ conv.arg \in {NoneV, EmptyDict}) =>
        conv.ret = NoneV

\* The raw value from_dict / from_obj read for descriptor fld.
RawField(fld) ==
    IF conv.op = "from_dict" THEN DictGet(conv.arg, fld.key) ELSE conv.arg.a[fld.name]

\* C7 (amended): from_obj, from_dict and from_list return None for None and
\* build nothing; from_dict of an empty mapping returns a new entity whose
\* single-valued and EntityList-typed fields are None and whose list-valued
\* fields are []; a nested None is stored as an absent (None) field.
C7_MissingInput ==
    /\ (conv.op \in {"from_dict", "from_obj", "from_list"} /\ conv.arg = NoneV) =>
          (conv.ret = NoneV /\ Len(heap) <= MaxObjs)
    /\ (conv.op = "from_dict" /\ conv.arg = EmptyDict) =>
          /\ conv.ret = Ref(Len(heap))
          /\ heap[conv.ret.id].cls = conv.cls
          /\ \A i \in DOMAIN get_vars(conv.cls) :
                LET fld == get_vars(conv.cls)[i]
                IN  heap[conv.ret.id].f[fld.attr] =
                        IF fld.multiple THEN ListV(<< >>) ELSE NoneV
    /\ (conv.op \in {"from_dict", "from_obj"} /\ conv.ret # NoneV) =>
          \A i \in DOMAIN get_vars(conv.cls) :
              LET fld == get_vars(conv.cls)[i]
              IN  (fld.type # "" /\ ~fld.multiple /\ RawField(fld) = NoneV) =>
                      heap[conv.ret.id].f[fld.attr] = NoneV

\* from_dict({}) on a class with nested single-valued and list-valued fields.
C7_Witness ==
    /\ conv.op = "from_dict" /\ conv.arg = EmptyDict /\ conv.cls = "Node"
    /\ conv.ret.k = "ref"

(***************************************************************************)
(* EntityList: the list under test holds abstract elements.                *)
(* A value is [kind, n, items, cast]: kind "typed" satisfies the contained *)
(* type's istypeof; "raw" and "tuple" (a sequence that is not a list) do   *)
(* not, and the contained type's constructor accepts them; "bad" does not, *)
(* and the constructor raises; "list" is a Python list of such values.     *)
(* cast marks a value the constructor built.                               *)
(***************************************************************************)
\* _contained_type.istypeof(value)
is_valid(value) == value.kind = "typed"

\* whether _contained_type(value) returns
Constructible(value) == value.kind \in {"raw", "tuple"}

\* _contained_type(value)
Construct(value) == [value EXCEPT !.kind = "typed", !.cast = TRUE]

\* a _fix_value that hands back the value it was given instead of the
\* constructed one
fix_value_uncast(value) ==
    IF Constructible(value)
    THEN [v |-> value, err |-> NoErr]
    ELSE [v |-> NoElem, err |-> ValueError(value)]

\* _fix_value: the constructed value, or ValueError naming the value
fix_value(value) ==
    IF Constructible(value)
    THEN [v |-> Construct(value), err |-> NoErr]
    ELSE [v |-> NoElem, err |-> ValueError(value)]

\* list.insert(idx, v): an index out of range is clamped to the ends
list_insert(s, idx, v) ==
    LET n == Len(s)
        j0 == IF idx < 0 THEN idx + n ELSE idx
        j == IF j0 < 0 THEN 0 ELSE IF j0 > n THEN n ELSE j0
    IN  SubSeq(s, 1, j) \o << v >> \o SubSeq(s, j + 1, n)

\* the position a list index names, 0 when it is out of range
list_pos(s, key) ==
    IF key >= 0 /\ key < Len(s) THEN key + 1
    ELSE IF key < 0 /\ key >= -Len(s) THEN key + Len(s) + 1
    ELSE 0

\* an insert that stores the value before it validates it
insert_unchecked(s, idx, value) ==
    IF ~is_valid(value)
    THEN LET fx == fix_value(value)
         IN  IF fx.err # NoErr THEN [inner |-> list_insert(s, idx, value), err |-> fx.err]
             ELSE [inner |-> list_insert(s, idx, fx.v), err |-> NoErr]
    ELSE [inner |-> list_insert(s, idx, value), err |-> NoErr]

\* EntityList.insert: the list it leaves and the error it raises
insert(s, idx, value) ==
    IF ~is_valid(value)
    THEN LET fx == fix_value(value)
         IN  IF fx.err # NoErr THEN [inner |-> s, err |-> fx.err]
             ELSE [inner |-> list_insert(s, idx, fx.v), err |-> NoErr]
    ELSE [inner |-> list_insert(s, idx, value), err |-> NoErr]

\* MutableSequence.append: insert(len(self), value)
append(s, value) == insert(s, Len(s), value)

\* EntityList.__setitem__
setitem(s, key, value) ==
    LET fx == IF is_valid(value) THEN [v |-> value, err |-> NoErr] ELSE fix_value(value)
    IN  IF fx.err # NoErr THEN [inner |-> s, err |-> fx.err]
        ELSE IF list_pos(s, key) = 0 THEN [inner |-> s, err |-> IndexError]
        ELSE [inner |-> [s EXCEPT ![list_pos(s, key)] = fx.v], err |-> NoErr]

\* EntityList.__delitem__
delitem(s, key) ==
    IF list_pos(s, key) = 0 THEN [inner |-> s, err |-> IndexError]
    ELSE [inner |-> SubSeq(s, 1, list_pos(s, key) - 1) \o
                    SubSeq(s, list_pos(s, key) + 1, Len(s)),
          err |-> NoErr]

\* MutableSequence.extend: for v in values: self.append(v)
RECURSIVE extend(_, _, _)
extend(s, values, i) ==
    IF i > Len(values) THEN [inner |-> s, err |-> NoErr]
    ELSE LET one == append(s, values[i])
         IN  IF one.err # NoErr THEN one ELSE extend(one.inner, values, i + 1)

RECURSIVE init_args(_, _, _)

\* an __init__ that extends with every sequence, tuples too
init_args_any_sequence(s, args, i) ==
    IF i > Len(args) THEN [inner |-> s, err |-> NoErr]
    ELSE LET one == IF args[i].kind \in {"list", "tuple"}
                    THEN extend(s, args[i].items, 1)
                    ELSE append(s, args[i])
         IN  IF one.err # NoErr THEN one ELSE init_args(one.inner, args, i + 1)

\* EntityList.__init__(*args): a list argument is extended into the new
\* list, any other argument is appended
init_args(s, args, i) ==
    IF i > Len(args) THEN [inner |-> s, err |-> NoErr]
    ELSE LET one == IF args[i].kind = "list"
                    THEN extend(s, args[i].items, 1)
                    ELSE append(s, args[i])
         IN  IF one.err # NoErr THEN one ELSE init_args(one.inner, args, i + 1)

\* lst = EntityList(*args)
Construct_list(args) ==
    /\ last.op = "none"
    /\ LET res == init_args(<< >>, args, 1)
       IN  /\ inner' = IF res.err = NoErr THEN res.inner ELSE inner
           /\ last' = Call("init", NoElem, 0, args, << >>, res.err)
    /\ UNCHANGED <<heap, conv, stack, visits, xml>>

\* lst.insert(idx, value)
Insert(idx, value) ==
    /\ Len(inner) < MaxLen
    /\ LET res == insert(inner, idx, value)
       IN  /\ inner' = res.inner
           /\ last' = Call("insert", value, idx, << >>, inner, res.err)
    /\ UNCHANGED <<heap, conv, stack, visits, xml>>

\* lst.append(value)
AppendValue(value) ==
    /\ Len(inner) < MaxLen
    /\ LET res == append(inner, value)
       IN  /\ inner' = res.inner
           /\ last' = Call("append", value, Len(inner), << >>, inner, res.err)
    /\ UNCHANGED <<heap, conv, stack, visits, xml>>

\* lst[key] = value
SetItem(key, value) ==
    /\ Len(inner) <= MaxLen
    /\ LET res == setitem(inner, key, value)
       IN  /\ inner' = res.inner
           /\ last' = Call("setitem", value, key, << >>, inner, res.err)
    /\ UNCHANGED <<heap, conv, stack, visits, xml>>

\* del lst[key]
DelItem(key) ==
    /\ LET res == delitem(inner, key)
       IN  /\ inner' = res.inner
           /\ last' = Call("delitem", NoElem, key, << >>, inner, res.err)
    /\ UNCHANGED <<heap, conv, stack, visits, xml>>

SeqsUpTo(S, n) == UNION {[1..k -> S] : k \in 0..n}

ItemValues == {Typed(1), Raw(1), Bad(1)}
InputValues ==
    ItemValues \cup {Typed(2), TupleOf(<< Raw(1), Typed(1) >>)}
ArgValues == InputValues \cup {ListOf(s) : s \in SeqsUpTo(ItemValues, 2)}
Indexes == -(MaxLen + 1)..(MaxLen + 1)

InitList ==
    /\ heap = << >>
    /\ conv = NoConv
    /\ inner = << >>
    /\ last = NoCall
    /\ stack = << >>
    /\ visits = << >>
    /\ xml = NoXml

NextList ==
    \/ \E args \in SeqsUpTo(ArgValues, MaxArgs) : Construct_list(args)
    \/ \E idx \in Indexes, value \in InputValues : Insert(idx, value)
    \/ \E value \in InputValues : AppendValue(value)
    \/ \E key \in Indexes, value \in InputValues : SetItem(key, value)
    \/ \E key \in Indexes : DelItem(key)

SpecList == InitList /\ [][NextList]_vars

(***************************************************************************)
(* Claims about EntityList, checked under SpecList                         *)
(***************************************************************************)

\* what a write stores for an accepted value: the value itself when it
\* satisfies the predicate, else the constructed value
Stored(value) == IF is_valid(value) THEN value ELSE Construct(value)

RemoveAt(s, j) == SubSeq(s, 1, j - 1) \o SubSeq(s, j + 1, Len(s))

\* the list after the call is the list before it with `e` introduced by
\* last.op: inserted at some position, appended at the end, or replacing the
\* element the index names
Introduced(e) ==
    CASE last.op = "insert" ->
           \E j \in 1..Len(inner) : inner[j] = e /\ RemoveAt(inner, j) = last.before
      [] last.op = "append" -> inner = Append(last.before, e)
      [] last.op = "setitem" ->
           /\ Len(inner) = Len(last.before)
           /\ \A j \in 1..Len(inner) :
                 inner[j] = IF j = list_pos(last.before, last.idx) THEN e
                            ELSE last.before[j]

\* C3: on insert, append and index-assignment, a value satisfying istypeof is
\* stored unchanged, a value failing it that the contained type constructs is
\* stored as the constructed value, and a value failing both raises a
\* ValueError naming the value and stores nothing.  (An index-assignment
\* introduces an element only at an index of the list.)
C3_Coercion ==
    last.op \in {"insert", "append", "setitem"} =>
        IF is_valid(last.value) \/ Constructible(last.value)
        THEN IF last.op = "setitem" /\ list_pos(last.before, last.idx) = 0
             THEN last.err = IndexError /\ inner = last.before
             ELSE last.err = NoErr /\ Introduced(Stored(last.value))
        ELSE last.err = ValueError(last.value) /\ inner = last.before

\* a raw value inserted before a typed element that was stored unchanged
C3_Witness ==
    /\ last.op = "insert" /\ last.value = Raw(1) /\ last.err = NoErr
    /\ last.before = << Typed(2) >>
    /\ inner = << Construct(Raw(1)), Typed(2) >>

\* the arguments with every list replaced by its items
RECURSIVE Flatten(_)
Flatten(args) ==
    IF args = << >> THEN << >>
    ELSE (IF Head(args).kind = "list" THEN Head(args).items ELSE << Head(args) >>)
         \o Flatten(Tail(args))

\* the arguments with every sequence, list or not, replaced by its items
RECURSIVE FlattenSequences(_)
FlattenSequences(args) ==
    IF args = << >> THEN << >>
    ELSE (IF Head(args).kind \in {"list", "tuple"} THEN Head(args).items
          ELSE << Head(args) >>)
         \o FlattenSequences(Tail(args))

\* the sum of the lengths of the list arguments plus the number of others
RECURSIVE ExpectedLen(_)
ExpectedLen(args) ==
    IF args = << >> THEN 0
    ELSE (IF Head(args).kind = "list" THEN Len(Head(args).items) ELSE 1)
         + ExpectedLen(Tail(args))

Acceptable(value) == is_valid(value) \/ Constructible(value)

\* C8 (as claimed): a completed construction flattens every argument that is
\* a sequence and keeps every other argument as one element, in order.
C8_FlattensEverySequence ==
    (last.op = "init" /\ last.err = NoErr) =>
        /\ Len(inner) = Len(FlattenSequences(last.args))
        /\ \A i \in 1..Len(inner) : inner[i] = Stored(FlattenSequences(last.args)[i])

\* C8 (amended): a construction processes its arguments left to right; every
\* argument that is a list is flattened, every other argument (a tuple too)
\* becomes one element.  It completes iff every such item satisfies the
\* predicate or is constructible, and then the length is the sum of the list
\* lengths plus the number of other arguments, order is kept, and every
\* element satisfies the predicate; else it raises ValueError for the first
\* item that is neither.
C8_Construction ==
    last.op = "init" =>
        LET flat == Flatten(last.args)
            rejected == {i \in 1..Len(flat) : ~Acceptable(flat[i])}
        IN  IF rejected = {}
            THEN /\ last.err = NoErr
                 /\ Len(inner) = ExpectedLen(last.args)
                 /\ \A i \in 1..Len(inner) :
                       inner[i] = Stored(flat[i]) /\ is_valid(inner[i])
            ELSE last.err = ValueError(flat[CHOOSE i \in rejected :
                                               \A j \in rejected : i <= j])

\* EntityList([raw, typed], tuple): the list is flattened, the tuple is one
\* element
C8_Witness ==
    /\ last.op = "init" /\ last.err = NoErr
    /\ last.args = << ListOf(<< Raw(1), Typed(1) >>), TupleOf(<< Raw(1), Typed(1) >>) >>
    /\ Len(inner) = 3
    /\ inner[1] = Construct(Raw(1)) /\ inner[2] = Typed(1)

\* C10: an insert, append or index-assignment rejected with ValueError leaves
\* the list as it was; a successful insert or append grows the length by 1, a
\* successful index-assignment keeps it, a successful deletion shrinks it by 1.
C10_Lengths ==
    /\ (last.op \in {"insert", "append", "setitem"} /\ last.err.name = "ValueError") =>
          inner = last.before
    /\ (last.op \in {"insert", "append"} /\ last.err = NoErr) =>
          Len(inner) = Len(last.before) + 1
    /\ (last.op = "setitem" /\ last.err = NoErr) => Len(inner) = Len(last.before)
    /\ (last.op = "delitem" /\ last.err = NoErr) => Len(inner) = Len(last.before) - 1

\* a rejected insert into a non-empty list
C10_Witness ==
    /\ last.op = "insert" /\ last.err = ValueError(Bad(1))
    /\ Len(last.before) = 1 /\ inner = last.before

(***************************************************************************)
(* to_xml and the namespace walk, on a graph of Link entities.  An entity  *)
(* references others through its descriptor field `next` (kept in _fields) *)
(* and through the plain attribute `parent` (kept in vars(self)).          *)
(***************************************************************************)

\* the classes of c's __mro__, nearest first
mro(c) ==
    CASE c = "SubLink" -> << "SubLink", "Link", "Entity", "object" >>
      [] c \in {"Entity", "object"} -> << c >>
      [] OTHER -> << c, "Entity", "object" >>

\* x._namespace, "" when hasattr(x, '_namespace') is false
class_namespace(x) ==
    CASE x = "SubLink" -> "nsSub"
      [] x = "Link" -> "nsLink"
      [] x = "Node" -> "nsNode"
      [] x \in {"Leaf", "LeafList"} -> "nsLeaf"
      [] OTHER -> ""

\* the namespaces of the classes of self.__class__.__mro__ that have one
own_namespaces(c) ==
    {class_namespace(mro(c)[i]) : i \in DOMAIN mro(c)} \ {""}

\* the Entities a value yields: the value itself, or the items of a list
value_children(val) ==
    CASE val.k = "ref" -> << val.id >>
      [] val.k = "list" -> [i \in 1..Len(val.items) |-> val.items[i].id]
      [] OTHER -> << >>

\* _get_children: the Entities among vars(self) (parent, and the items of
\* _inner), then among _fields, in descriptor order
RECURSIVE fields_children(_, _, _)
fields_children(h, id, i) ==
    IF i > Len(get_vars(h[id].cls)) THEN << >>
    ELSE value_children(h[id].f[get_vars(h[id].cls)[i].attr])
         \o fields_children(h, id, i + 1)

get_children(h, id) ==
    value_children(h[id].parent) \o value_children(ListV(h[id].inner))
    \o fields_children(h, id, 1)

\* the frame _get_namespaces opens for self: its class namespaces, the
\* children still to look at
Frame(h, id) == [obj |-> id, todo |-> get_children(h, id), ns |-> own_namespaces(h[id].cls)]

\* cls() for the graph under to_xml
NewLink(c) ==
    /\ Building
    /\ Len(heap) < MaxLinks
    /\ heap' = Append(heap, NewObj(c))
    /\ UNCHANGED <<conv, inner, last, stack, visits, xml>>

\* entity.parent = target or None
SetParent(id, val) ==
    /\ Building
    /\ heap[id].parent # val
    /\ heap' = [heap EXCEPT ![id].parent = val]
    /\ UNCHANGED <<conv, inner, last, stack, visits, xml>>

\* root.to_xml(): the call of _get_namespaces on root sets the marker and
\* starts on its children
ToXml(root) ==
    /\ Building
    /\ xml' = [xml EXCEPT !.pc = "walk", !.root = root]
    /\ heap' = [heap EXCEPT ![root].touched = TRUE]
    /\ stack' = << Frame(heap, root) >>
    /\ visits' = [i \in Live(heap) |-> IF i = root THEN 1 ELSE 0]
    /\ UNCHANGED <<conv, inner, last>>

Top == stack[Len(stack)]

\* the next child carries the marker: it is skipped
WalkSkip ==
    /\ xml.pc = "walk" /\ Top.todo # << >>
    /\ heap[Head(Top.todo)].touched
    /\ stack' = [stack EXCEPT ![Len(stack)].todo = Tail(@)]
    /\ UNCHANGED <<heap, conv, inner, last, visits, xml>>

\* the next child carries no marker: _get_namespaces is called on it
WalkDescend ==
    /\ xml.pc = "walk" /\ Top.todo # << >>
    /\ ~heap[Head(Top.todo)].touched
    /\ LET x == Head(Top.todo)
       IN  /\ heap' = [heap EXCEPT ![x].touched = TRUE]
           /\ stack' = Append([stack EXCEPT ![Len(stack)].todo = Tail(@)],
                              Frame(heap, x))
           /\ visits' = [visits EXCEPT ![x] = @ + 1]
    /\ UNCHANGED <<conv, inner, last, xml>>

\* a return that leaves the marker on the entity
WalkReturn_keeps_marker ==
    /\ xml.pc = "walk" /\ Top.todo = << >>
    /\ heap' = heap
    /\ IF Len(stack) = 1
       THEN /\ stack' = << >>
            /\ xml' = [xml EXCEPT !.pc = "export", !.ns = Top.ns]
       ELSE /\ stack' = [SubSeq(stack, 1, Len(stack) - 1)
                           EXCEPT ![Len(stack) - 1].ns = @ \cup Top.ns]
            /\ xml' = xml
    /\ UNCHANGED <<conv, inner, last, visits>>

\* no child is left: the marker is deleted and nsset returned, to the
\* caller's nsset.update or to _get_namespace_def
WalkReturn ==
    /\ xml.pc = "walk" /\ Top.todo = << >>
    /\ heap' = [heap EXCEPT ![Top.obj].touched = FALSE]
    /\ IF Len(stack) = 1
       THEN /\ stack' = << >>
            /\ xml' = [xml EXCEPT !.pc = "export", !.ns = Top.ns]
       ELSE /\ stack' = [SubSeq(stack, 1, Len(stack) - 1)
                           EXCEPT ![Len(stack) - 1].ns = @ \cup Top.ns]
            /\ xml' = xml
    /\ UNCHANGED <<conv, inner, last, visits>>

\* the rest of to_xml: _get_namespace_def adds xsi and maecVocabs to a
\* non-empty set, then self.to_obj().export(...) writes the document
Export ==
    /\ xml.pc = "export"
    /\ xml' = [xml EXCEPT
                 !.pc = "done",
                 !.declared = IF xml.ns # {} THEN xml.ns \cup {"xsi", "maecVocabs"}
                              ELSE {},
                 !.status = IF to_obj_overflows(heap, xml.root, RecursionLimit)
                            THEN "RuntimeError" ELSE "ok"]
    /\ UNCHANGED <<heap, conv, inner, last, stack, visits>>

InitWalk ==
    /\ heap = << >>
    /\ conv = NoConv
    /\ inner = << >>
    /\ last = NoCall
    /\ stack = << >>
    /\ visits = << >>
    /\ xml = NoXml

NextWalk ==
    \/ \E c \in LinkClasses : NewLink(c)
    \/ \E id \in Live(heap), t \in Live(heap) : SetRef(id, 1, Ref(t))
    \/ \E id \in Live(heap) : SetRef(id, 1, NoneV)
    \/ \E id \in Live(heap), t \in Live(heap) : SetParent(id, Ref(t))
    \/ \E id \in Live(heap) : SetParent(id, NoneV)
    \/ \E root \in Live(heap) : ToXml(root)
    \/ WalkSkip
    \/ WalkDescend
    \/ WalkReturn
    \/ Export

SpecWalk == InitWalk /\ [][NextWalk]_vars

(***************************************************************************)
(* Claims about to_xml and the namespace walk, checked under SpecWalk      *)
(***************************************************************************)
ChildSet(h, id) == {get_children(h, id)[i] : i \in DOMAIN get_children(h, id)}

\* the entities reachable from `from` through children, `from` included
RECURSIVE ReachableFrom(_, _)
ReachableFrom(h, seen) ==
    LET more == seen \cup UNION {ChildSet(h, x) : x \in seen}
    IN  IF more = seen THEN seen ELSE ReachableFrom(h, more)

\* the number of paths from `from` to `to` that pass through no entity twice
\* and through none of `on_path`; two references to one child are two paths
RECURSIVE SimplePaths(_, _, _, _)
RECURSIVE SumPaths(_, _, _, _, _)
SumPaths(h, kids, i, to, on_path) ==
    IF i > Len(kids) THEN 0
    ELSE (IF kids[i] \in on_path THEN 0
          ELSE SimplePaths(h, kids[i], to, on_path \cup {kids[i]}))
         + SumPaths(h, kids, i + 1, to, on_path)

SimplePaths(h, from, to, on_path) ==
    IF from = to THEN 1 ELSE SumPaths(h, get_children(h, from), 1, to, on_path)

\* root references another entity that references root
OnTwoCycle(h, root) ==
    \E b \in Live(h) : b # root /\ b \in ChildSet(h, root) /\ root \in ChildSet(h, b)

\* C5 (as claimed): to_xml of an entity on a cycle A -> B -> A completes, and
\* the namespaces it declares (besides xsi and maecVocabs, which every
\* document declares) are those of the classes of the entities of the graph.
C5_CycleToXml ==
    (xml.pc = "done" /\ OnTwoCycle(heap, xml.root)) =>
        /\ xml.status = "ok"
        /\ xml.declared \ {"xsi", "maecVocabs"} =
              UNION {own_namespaces(heap[x].cls) : x \in ReachableFrom(heap, {xml.root})}

\* C9 (as claimed): when the walk has returned, every entity reachable from
\* the root, shared or not, was walked exactly once.
C9_SharedWalkedOnce ==
    xml.pc \in {"export", "done"} =>
        \A x \in ReachableFrom(heap, {xml.root}) : visits[x] = 1

\* C9 (amended): an entity carries the marker exactly while a call of
\* _get_namespaces on it is open, so a child already on the current path is
\* skipped and no entity is on the path twice; the marker is removed when the
\* call returns, so an entity reachable through several paths is walked once
\* for every path from the root that repeats no entity, not once in all;
\* when the walk has returned no entity carries the marker.
C9_WalkPerPath ==
    /\ \A i, j \in DOMAIN stack : stack[i].obj = stack[j].obj => i = j
    /\ \A x \in Live(heap) :
          heap[x].touched <=> \E i \in DOMAIN stack : stack[i].obj = x
    /\ xml.pc \in {"export", "done"} =>
          /\ stack = << >>
          /\ \A x \in Live(heap) :
                visits[x] = SimplePaths(heap, xml.root, x, {xml.root})

\* a returned walk of a graph with a cycle through the root in which one
\* entity was reached along two paths
C9_Witness ==
    /\ xml.pc = "export"
    /\ OnTwoCycle(heap, xml.root)
    /\ \E x \in Live(heap) : visits[x] = 2

====
